---- MODULE Spec2Model ----
(***************************************************************************)
(* Model of src/src/server.ts: an express server that serves recipes from  *)
(* a MongoDB collection with a cache-aside Redis layer in front of the     *)
(* list query, and evicts on create / update / delete.                     *)
(*                                                                         *)
(* Strings are sequences of one-character strings, so that the template    *)
(* literal that builds the cache key, Number(), the RegExp match and the   *)
(* $sort comparison are computed as the code computes them.  An optional   *)
(* value (a query parameter that may be missing, the reply of redis.get)   *)
(* is a sequence of length 0 or 1.                                         *)
(***************************************************************************)
EXTENDS Integers, Sequences, FiniteSets, TLC

VARIABLES
    store,      \* the recipes collection: ObjectId -> document
    nextId,     \* the next ObjectId mongoose generates
    cache,      \* the redis keyspace: key -> value, expiry time and history
    now,        \* the clock, in seconds
    ticks,      \* number of clock advances so far
    inflight,   \* the requests whose handler is suspended at an await
    last,       \* the request whose response was sent last (<<>> at start)
    started,    \* number of requests accepted so far
    commits,    \* number of committed store mutations (history)
    evictedUpTo,\* highest commit whose eviction was acknowledged and answered
    fresh,      \* the last list response computed on a miss and cached,
                \* while nothing has happened since (<<>> otherwise)
    proc        \* the process: whether it listens, its connections, the
                \* signal handlers that are suspended, its exit

vars == <<store, nextId, cache, now, ticks, inflight, last, started, commits,
          evictedUpTo, fresh, proc>>

-----------------------------------------------------------------------------
(* Bounds of the model *)

MaxIds == 2          \* POST creates the ObjectIds up to MaxIds
MaxRequests == 2     \* requests accepted in one behaviour
MaxClockRequests == 3 \* requests accepted in one behaviour under the clock
MaxInflight == 2     \* requests suspended at the same time
MaxTicks == 2        \* clock advances in one behaviour
MaxParamRequests == 2 \* requests accepted when the parameters vary
MaxByIdRequests == 3 \* requests accepted by the endpoints that take an id
MaxLifecycleRequests == 2 \* requests accepted in a behaviour with signals
MaxSignals == 2      \* termination signals delivered in one behaviour
ShortTick == 2       \* seconds of a short clock advance

(* Program constants *)

DEFAULT_PAGE_SIZE == 10
MAX_PAGE_SIZE == 100
TTL_SECONDS == 3600

LongTick == TTL_SECONDS - 1

-----------------------------------------------------------------------------
(* Optional values *)

None == <<>>
Some(x) == <<x>>
IsSome(o) == Len(o) = 1
Get(o) == o[1]

(* Strings *)

Str_recipes_page == <<"r","e","c","i","p","e","s",":","p","a","g","e","=">>
Str_pageSize == <<"&","p","a","g","e","S","i","z","e","=">>
Str_search == <<"&","s","e","a","r","c","h","=">>
Str_difficulty == <<"&","d","i","f","f","i","c","u","l","t","y","=">>
Str_recipes_star == <<"r","e","c","i","p","e","s",":","*">>

Digits == <<"0","1","2","3","4","5","6","7","8","9">>

DigitValue(c) == CHOOSE d \in 0..9 : Digits[d + 1] = c

IsDigit(c) == \E d \in 0..9 : Digits[d + 1] = c

RECURSIVE NatToString(_)
NatToString(n) ==
    IF n < 10 THEN <<Digits[n + 1]>>
    ELSE NatToString(n \div 10) \o <<Digits[(n % 10) + 1]>>

\* String(n) of a JS number that holds an integer (template literal `${n}`)
NumberToString(n) == IF n < 0 THEN <<"-">> \o NatToString(-n) ELSE NatToString(n)

RECURSIVE DigitsToNat(_)
DigitsToNat(s) ==
    IF s = <<>> THEN 0
    ELSE 10 * DigitsToNat(SubSeq(s, 1, Len(s) - 1)) + DigitValue(s[Len(s)])

\* A JS number: an integer or NaN
NaN == [nan |-> TRUE, n |-> 0]
Num(n) == [nan |-> FALSE, n |-> n]

\* Number(s) of a string of the model's alphabet: "" is 0, an optionally
\* signed run of digits is its value, anything else is NaN
StringToNumber(s) ==
    LET neg == s # <<>> /\ s[1] = "-"
        ds == IF neg THEN Tail(s) ELSE s
    IN  IF s = <<>> THEN Num(0)
        ELSE IF ds # <<>> /\ \A i \in 1..Len(ds) : IsDigit(ds[i])
             THEN Num(IF neg THEN -DigitsToNat(ds) ELSE DigitsToNat(ds))
             ELSE NaN

\* A JS value that is a number or a string (the type of `page`)
JsNumber(n) == [t |-> "number", n |-> n, s |-> <<>>]
JsString(s) == [t |-> "string", n |-> 0, s |-> s]

\* `${v}`
TemplateOf(v) == IF v.t = "number" THEN NumberToString(v.n) ELSE v.s

\* Number(v)
NumberOf(v) == IF v.t = "number" THEN Num(v.n) ELSE StringToNumber(v.s)

\* Number(undefined) is NaN
NumberOfParam(o) == IF IsSome(o) THEN StringToNumber(Get(o)) ELSE NaN

Min(a, b) == IF a < b THEN a ELSE b

\* Math.ceil(a / b) for integers a, b with b # 0
MathCeilDiv(a, b) ==
    LET n == IF b > 0 THEN a ELSE -a
        d == IF b > 0 THEN b ELSE -b
        q == n \div d
    IN  IF q * d = n THEN q ELSE q + 1

\* Code units, in increasing order, of the characters the model uses
CodeUnits == <<"&", "*", "-", "0","1","2","3","4","5","6","7","8","9", ":", "=",
               "A","B","C","D","E","F","G","H","I","J","K","L","M",
               "N","O","P","Q","R","S","T","U","V","W","X","Y","Z",
               "a","b","c","d","e","f","g","h","i","j","k","l","m",
               "n","o","p","q","r","s","t","u","v","w","x","y","z">>

CharCode(c) == CHOOSE i \in 1..Len(CodeUnits) : CodeUnits[i] = c

FirstUpper == CharCode("A")
FirstLower == CharCode("a")

ToLowerChar(c) ==
    LET i == CharCode(c)
    IN  IF i >= FirstUpper /\ i < FirstLower
        THEN CodeUnits[i + (FirstLower - FirstUpper)] ELSE c

ToLower(s) == [i \in 1..Len(s) |-> ToLowerChar(s[i])]

\* new RegExp(pattern, "i").test(s), for a pattern of letters: s contains
\* the pattern, whatever the case
RegExpTestI(pattern, s) ==
    LET p == ToLower(pattern)
        t == ToLower(s)
    IN  \E i \in 0..(Len(t) - Len(p)) : SubSeq(t, i + 1, i + Len(p)) = p

\* s sorts strictly before t in the store's binary string comparison
RECURSIVE StringLess(_, _)
StringLess(s, t) ==
    IF t = <<>> THEN FALSE
    ELSE IF s = <<>> THEN TRUE
    ELSE IF s[1] # t[1] THEN CharCode(s[1]) < CharCode(t[1])
    ELSE StringLess(Tail(s), Tail(t))

-----------------------------------------------------------------------------
(* The store: the Recipe collection *)

\* The request bodies a caller posts or puts
RecipeBodies ==
    { [title |-> <<"A","b">>, ingredients |-> <<<<"x">>>>, difficulty |-> <<"E">>],
      [title |-> <<"b">>,     ingredients |-> <<<<"a">>>>, difficulty |-> <<"H">>] }

Document(id, body) ==
    [_id |-> id, title |-> body.title, ingredients |-> body.ingredients,
     difficulty |-> body.difficulty]

\* The collections the server can find when it starts
InitialStores ==
    { <<>>,
      [id \in 1..2 |->
          Document(id, IF id = 1
              THEN [title |-> <<"b">>, ingredients |-> <<<<"a">>>>, difficulty |-> <<"H">>]
              ELSE [title |-> <<"A","b">>, ingredients |-> <<<<"x">>>>, difficulty |-> <<"E">>])] }

\* An identifier that is no well-formed ObjectId
MalformedId == 0

IdInputs == {MalformedId} \cup (1..MaxIds)

\* The $match stage: `query`
MatchesQuery(doc, search, difficulty) ==
    /\ difficulty # <<>> => RegExpTestI(difficulty, doc.difficulty)
    /\ \/ RegExpTestI(search, doc.title)
       \/ \E i \in 1..Len(doc.ingredients) : RegExpTestI(search, doc.ingredients[i])

\* The orders { $sort: { title: 1 } } can put the documents of ids in: any
\* order in which no document comes before one with a smaller title
SortedByTitle(docs, ids) ==
    { o \in [1..Cardinality(ids) -> ids] :
        /\ \A i, j \in 1..Cardinality(ids) : i # j => o[i] # o[j]
        /\ \A i, j \in 1..Cardinality(ids) :
              i < j => ~StringLess(docs[o[j]].title, docs[o[i]].title) }

\* Whether the pipeline is rejected: $skip takes a non-negative number and
\* $limit a positive one
PipelineRejected(skip, limit) == skip.nan \/ skip.n < 0 \/ limit <= 0

\* The replies Recipe.aggregate can give for the pipeline: one $facet
\* document with the page (sorted, skipped, limited, projected) and the count
\* of the matching documents ($count emits nothing when there are none)
Aggregate(docs, search, difficulty, skip, limit) ==
    LET ids == { id \in DOMAIN docs : MatchesQuery(docs[id], search, difficulty) }
        n == Cardinality(ids)
    IN  { << [ recipes |-> [ i \in 1..(Min(skip + limit, n) - Min(skip, n)) |->
                               docs[o[Min(skip, n) + i]] ],
               totalCount |-> IF n = 0 THEN <<>> ELSE << [count |-> n] >> ] >>
          : o \in SortedByTitle(docs, ids) }

\* newRecipe.save()
StoreInsert(docs, id, body) ==
    [i \in DOMAIN docs \cup {id} |-> IF i = id THEN Document(id, body) ELSE docs[i]]

\* Recipe.findByIdAndUpdate(id, body, { new: true })
StoreUpdate(docs, id, body) == [docs EXCEPT ![id] = Document(id, body)]

\* Recipe.findByIdAndDelete(id)
StoreDelete(docs, id) == [i \in DOMAIN docs \ {id} |-> docs[i]]

-----------------------------------------------------------------------------
(* The cache: the redis keyspace *)

\* An entry that has not expired
Live(c, key, t) == key \in DOMAIN c /\ c[key].exp > t

\* redis.get(key): the value, or nil
RedisGet(c, key, t) == IF Live(c, key, t) THEN Some(c[key].val) ELSE None

\* redis.set(key, val, "EX", ttl) at time t; hist is the history kept with
\* the entry: the query that wrote it, the number of commits at the write,
\* since when its value is out of date, the number of commits when the store
\* was read for it and the collection that was read
RedisSetEx(c, key, val, ttl, t, hist) ==
    [k \in DOMAIN c \cup {key} |->
        IF k = key
        THEN [val |-> val, exp |-> t + ttl, raw |-> hist.raw, wver |-> hist.wver,
              staleSince |-> hist.staleSince, rver |-> hist.rver,
              rstore |-> hist.rstore]
        ELSE c[k]]

\* redis.del(key): DEL removes the key of that very name; it takes no pattern
RedisDel(c, key) == [k \in DOMAIN c \ {key} |-> c[k]]

\* What the passing of time does to the keyspace
Expire(c, t) == [k \in {k \in DOMAIN c : c[k].exp > t} |-> c[k]]

-----------------------------------------------------------------------------
(* GET /recipes: parameters, cache key, result shaping *)

\* The query strings of the model: each parameter missing or a string
RawPages == {None, Some(<<"1">>), Some(<<"2">>), Some(<<"0">>)}
RawPageSizes == {None, Some(<<"0">>), Some(<<"-","5">>), Some(<<"1">>), Some(<<"x">>),
                 Some(<<"1","0","0">>), Some(<<"1","5","0">>), Some(<<"5","0","0">>)}
RawSearches == {None, Some(<<"a">>)}
RawDifficulties == {None, Some(<<"e">>)}

NoQuery == [page |-> None, pageSize |-> None, search |-> None, difficulty |-> None]

\* The list requests of the model: at most one parameter given, or page 2
\* of pages of one recipe, or a search term and a difficulty
ListQueries ==
    { [NoQuery EXCEPT !.page = p] : p \in RawPages }
    \cup { [NoQuery EXCEPT !.pageSize = s] : s \in RawPageSizes }
    \cup { [NoQuery EXCEPT !.search = t] : t \in RawSearches }
    \cup { [NoQuery EXCEPT !.difficulty = d] : d \in RawDifficulties }
    \cup { [NoQuery EXCEPT !.page = Some(<<"2">>), !.pageSize = Some(<<"1">>)],
           [NoQuery EXCEPT !.search = Some(<<"a">>), !.difficulty = Some(<<"e">>)] }

\* The list requests of the specification with mutations: no parameter,
\* page 1 spelled out, page 0, page 2 of pages of one recipe, a search term
FewQueries ==
    { NoQuery,
      [NoQuery EXCEPT !.page = Some(<<"1">>)],
      [NoQuery EXCEPT !.page = Some(<<"0">>)],
      [NoQuery EXCEPT !.page = Some(<<"2">>), !.pageSize = Some(<<"1">>)],
      [NoQuery EXCEPT !.search = Some(<<"a">>)] }

\* const { page = 1 } = req.query
PageOf(raw) == IF IsSome(raw.page) THEN JsString(Get(raw.page)) ELSE JsNumber(1)

\* Faulty variant: the upper clamp is missing
PageSizeOf_NoClamp(raw) ==
    LET x == NumberOfParam(raw.pageSize)
    IN  IF x.nan \/ x.n = 0 THEN DEFAULT_PAGE_SIZE ELSE x.n

\* Math.min(Number(req.query.pageSize) || 10, 100)
PageSizeOf(raw) ==
    LET x == NumberOfParam(raw.pageSize)
    IN  Min(IF x.nan \/ x.n = 0 THEN DEFAULT_PAGE_SIZE ELSE x.n, MAX_PAGE_SIZE)

\* typeof req.query.search === "string" ? req.query.search : ""
SearchOf(raw) == IF IsSome(raw.search) THEN Get(raw.search) ELSE <<>>

DifficultyOf(raw) == IF IsSome(raw.difficulty) THEN Get(raw.difficulty) ELSE <<>>

\* `recipes:page=${page}&pageSize=${pageSize}&search=${search}&difficulty=${difficulty}`
CacheKey(page, pageSize, search, difficulty) ==
    Str_recipes_page \o TemplateOf(page) \o Str_pageSize \o NumberToString(pageSize)
        \o Str_search \o search \o Str_difficulty \o difficulty

\* (Number(page) - 1) * pageSize
SkipOf(page, pageSize) ==
    LET p == NumberOf(page)
    IN  IF p.nan THEN NaN ELSE Num((p.n - 1) * pageSize)

\* Faulty variant: Math.floor in place of Math.ceil
TotalPagesOf_Floor(totalRecipes, pageSize) ==
    IF pageSize > 0 THEN totalRecipes \div pageSize
    ELSE -((totalRecipes + (-pageSize) - 1) \div (-pageSize))

\* Math.ceil(totalRecipes / Number(pageSize))
TotalPagesOf(totalRecipes, pageSize) == MathCeilDiv(totalRecipes, pageSize)

\* Faulty variant: totalRecipes is the length of the page
CacheValueOf_PageLength(results, page, pageSize) ==
    LET recipes == IF results = <<>> THEN <<>> ELSE results[1].recipes
    IN  [recipes |-> recipes, totalRecipes |-> Len(recipes),
         totalPages |-> TotalPagesOf(Len(recipes), pageSize), currentPage |-> page]

\* cacheValue, from the reply of the aggregate
CacheValueOf(results, page, pageSize) ==
    LET recipes == IF results = <<>> THEN <<>> ELSE results[1].recipes
        totalRecipes ==
            IF results = <<>> \/ results[1].totalCount = <<>> THEN 0
            ELSE results[1].totalCount[1].count
    IN  [recipes |-> recipes, totalRecipes |-> totalRecipes,
         totalPages |-> TotalPagesOf(totalRecipes, pageSize), currentPage |-> page]

\* JSON.stringify(cacheValue): the members in insertion order
JSONStringify(v) ==
    << <<"recipes", v.recipes>>, <<"totalRecipes", v.totalRecipes>>,
       <<"totalPages", v.totalPages>>, <<"currentPage", v.currentPage>> >>

\* JSON.parse of such a text
JSONParse(s) ==
    [recipes |-> s[1][2], totalRecipes |-> s[2][2], totalPages |-> s[3][2],
     currentPage |-> s[4][2]]

\* The normalized query of a request
QueryOf(raw) ==
    [page |-> PageOf(raw), pageSize |-> PageSizeOf(raw), search |-> SearchOf(raw),
     difficulty |-> DifficultyOf(raw)]

\* The cacheValues the handler can compute for query q on the collection docs
PageResults(docs, q) ==
    LET skip == SkipOf(q.page, q.pageSize)
    IN  IF PipelineRejected(skip, q.pageSize) THEN {}
        ELSE { CacheValueOf(res, q.page, q.pageSize) :
                 res \in Aggregate(docs, q.search, q.difficulty, skip.n, q.pageSize) }

-----------------------------------------------------------------------------
(* Requests *)

NoError == [error |-> "", details |-> FALSE]

\* A request as it is accepted: the fields its handler has not set yet, and
\* the history of what happened to it
NewRequest(rid, kind) ==
    [rid |-> rid, kind |-> kind, pc |-> "new",
     raw |-> NoQuery, id |-> MalformedId, body |-> None,
     page |-> JsNumber(1), pageSize |-> 0, search |-> <<>>, difficulty |-> <<>>,
     key |-> <<>>, value |-> None,
     status |-> 0, resJson |-> None, resDoc |-> None, resError |-> NoError,
     \* history: the outcome of each await ("none", "ok", "error"; for get
     \* "hit", "miss", "error"), what redis.get returned, the collection the
     \* aggregate read, the commit number of the mutation, the time of the
     \* response, what the request found when it was accepted
     get |-> "none", agg |-> "none", set |-> "none", del |-> "none",
     cached |-> None, storeQueries |-> 0, cacheWrites |-> 0, readStore |-> <<>>,
     commit |-> 0, at |-> 0, staleSince |-> None, hitWver |-> 0,
     hitStaleSince |-> None, startEvicted |-> 0, startFresh |-> None,
     \* ... what the store call of a handler that takes an id found ("none",
     \* "yes", "no", "error"), the number of calls of redis.del and redis.set,
     \* the number of commits when the store was read (for a hit: when it was
     \* read for the entry), whether a signal handler was already running
     found |-> "none", delAttempts |-> 0, setAttempts |-> 0, readVer |-> 0,
     hitRver |-> 0, afterSignal |-> FALSE]

\* res.status(status).json({ error, details })
SendError(r, status, error, details) ==
    [r EXCEPT !.pc = "done", !.status = status,
              !.resError = [error |-> error, details |-> details]]

\* Faulty variant: the key is built from the requested page size, not the clamped one
ListBegin_RawKey(r, raw) ==
    [r EXCEPT !.raw = raw, !.page = PageOf(raw), !.pageSize = PageSizeOf(raw),
              !.search = SearchOf(raw), !.difficulty = DifficultyOf(raw),
              !.key = CacheKey(PageOf(raw), PageSizeOf_NoClamp(raw), SearchOf(raw),
                               DifficultyOf(raw)),
              !.pc = "get"]

\* The handler of GET /recipes up to its first await
ListBegin(r, raw) ==
    [r EXCEPT !.raw = raw, !.page = PageOf(raw), !.pageSize = PageSizeOf(raw),
              !.search = SearchOf(raw), !.difficulty = DifficultyOf(raw),
              !.key = CacheKey(PageOf(raw), PageSizeOf(raw), SearchOf(raw),
                               DifficultyOf(raw)),
              !.pc = "get"]

\* Faulty variant: the cache hit does not return
ListAfterGet_NoReturn(r, reply) == [r EXCEPT !.pc = "aggregate"]

\* After `await redis.get(cacheKey)`: reply.ok is whether the call resolved,
\* reply.val what it resolved to
ListAfterGet(r, reply) ==
    IF reply.ok /\ IsSome(reply.val)
    THEN [r EXCEPT !.pc = "done", !.status = 200,
                   !.resJson = Some(JSONStringify(JSONParse(Get(reply.val))))]
    ELSE [r EXCEPT !.pc = "aggregate"]

\* Faulty variant: a failed store query is taken for an empty result
ListAfterAggregate_Swallow(r, reply) ==
    [r EXCEPT !.pc = "set",
              !.value = Some(CacheValueOf(reply.results, r.page, r.pageSize))]

\* After `await Recipe.aggregate(...)`: reply.ok is whether it resolved,
\* reply.results what it resolved to
ListAfterAggregate(r, reply) ==
    IF reply.ok
    THEN [r EXCEPT !.pc = "set",
                   !.value = Some(CacheValueOf(reply.results, r.page, r.pageSize))]
    ELSE SendError(r, 500, "Failed to fetch recipes", TRUE)

\* Faulty variant: the cached text carries the default page, not the caller's
ListCachePayload_DefaultPage(r) ==
    JSONStringify([Get(r.value) EXCEPT !.currentPage = JsNumber(1)])

\* Faulty variant: the text is cut after its second member
ListCachePayload_Truncated(r) == SubSeq(JSONStringify(Get(r.value)), 1, 2)

\* JSON.stringify(cacheValue), the text given to redis.set
ListCachePayload(r) == JSONStringify(Get(r.value))

\* Faulty variant: no try / catch around redis.set
ListAfterSet_NoCatch(r, ok) ==
    IF ok
    THEN [r EXCEPT !.pc = "done", !.status = 200,
                   !.resJson = Some(JSONStringify(Get(r.value)))]
    ELSE SendError(r, 500, "Failed to fetch recipes", TRUE)

\* After `await redis.set(...)`, resolved or rejected
ListAfterSet(r, ok) ==
    [r EXCEPT !.pc = "done", !.status = 200,
              !.resJson = Some(JSONStringify(Get(r.value)))]

\* The status of the catch block of a mutation handler
CatchStatus(kind) == IF kind = "delete" THEN 500 ELSE 400

CatchError(kind) ==
    IF kind = "post" THEN "Failed to create recipe"
    ELSE IF kind = "put" THEN "Failed to update recipe"
    ELSE "Failed to delete recipe"

\* The status of the response at the end of the try block
SuccessStatus(kind) == IF kind = "post" THEN 201 ELSE 200

\* After the store call of a mutation handler (save, findByIdAndUpdate,
\* findByIdAndDelete): reply.ok is whether it resolved, reply.doc the
\* document it resolved to, if any
MutationAfterStore(r, reply) ==
    IF ~reply.ok THEN SendError(r, CatchStatus(r.kind), CatchError(r.kind), TRUE)
    ELSE IF ~IsSome(reply.doc) THEN SendError(r, 404, "Recipe not found", FALSE)
    ELSE [r EXCEPT !.pc = "clear", !.resDoc = reply.doc]

\* Faulty variant: no try / catch in clearRecipeCache
ClearRecipeCacheThrows_NoCatch(delOk) == ~delOk

\* clearRecipeCache: whether it rejects when redis.del does
ClearRecipeCacheThrows(delOk) == FALSE

\* Faulty variant: a failed eviction is tried once more
MutationAfterClear_Retry(r, delOk) ==
    IF ~delOk /\ r.delAttempts < 2 THEN r
    ELSE [r EXCEPT !.pc = "done", !.status = SuccessStatus(r.kind)]

\* After `await clearRecipeCache()`
MutationAfterClear(r, delOk) ==
    IF ClearRecipeCacheThrows(delOk)
    THEN SendError(r, CatchStatus(r.kind), CatchError(r.kind), TRUE)
    ELSE [r EXCEPT !.pc = "done", !.status = SuccessStatus(r.kind)]

\* mongoose.Types.ObjectId.isValid(id)
ObjectIdIsValid(id) == id # MalformedId

\* Faulty variant: the id is not validated before the store is queried
GetByIdBegin_NoValidation(r, id) == [r EXCEPT !.id = id, !.pc = "findById"]

\* The handler of GET /recipes/:id up to its await
GetByIdBegin(r, id) ==
    IF ~ObjectIdIsValid(id)
    THEN SendError([r EXCEPT !.id = id], 400, "Invalid recipe ID format", FALSE)
    ELSE [r EXCEPT !.id = id, !.pc = "findById"]

\* After `await Recipe.findById(id)`: reply.ok is whether it resolved,
\* reply.doc the document it resolved to, if any
GetByIdAfterFind(r, reply) ==
    IF ~reply.ok THEN SendError(r, 500, "Failed to fetch recipe", TRUE)
    ELSE IF ~IsSome(reply.doc) THEN SendError(r, 404, "Recipe not found", FALSE)
    ELSE [r EXCEPT !.pc = "done", !.status = 200, !.resDoc = reply.doc]

-----------------------------------------------------------------------------
(* History: since when a cached or held list result is out of date *)

StaleAfter(staleSince, value, q, docs, t) ==
    IF staleSince = None /\ value \notin PageResults(docs, q) THEN Some(t)
    ELSE staleSince

\* The commit of a store mutation, as seen by the cache entries
CacheAtCommit(c, docs, t) ==
    [k \in DOMAIN c |->
        [c[k] EXCEPT !.staleSince =
            StaleAfter(@, JSONParse(c[k].val), QueryOf(c[k].raw), docs, t)]]

\* ... and by the list requests that hold a result they have not cached yet
InflightAtCommit(rs, docs, t) ==
    { IF r.kind = "list" /\ r.pc = "set"
      THEN [r EXCEPT !.staleSince = StaleAfter(@, Get(r.value), QueryOf(r.raw), docs, t)]
      ELSE r : r \in rs }

-----------------------------------------------------------------------------
(* The state machine *)

Init ==
    /\ store \in InitialStores
    /\ nextId = Cardinality(DOMAIN store) + 1
    /\ cache = <<>>
    /\ now = 0
    /\ ticks = 0
    /\ inflight = {}
    /\ last = None
    /\ started = 0
    /\ commits = 0
    /\ evictedUpTo = 0
    /\ fresh = None
    /\ proc = [listening |-> TRUE, storeConnected |-> TRUE, cacheConnected |-> TRUE,
               signals |-> 0, handlers |-> 0, exited |-> FALSE, exitCode |-> 0]

CanAccept == proc.listening /\ Cardinality(inflight) < MaxInflight

\* The handler of request r ran from one await to the next (r1.pc names it)
\* or to its response
Proceed(r, r1) ==
    IF r1.pc = "done"
    THEN inflight' = inflight \ {r} /\ last' = Some([r1 EXCEPT !.at = now])
    ELSE inflight' = (inflight \ {r}) \cup {r1} /\ UNCHANGED last

\* GET /recipes, to the reply of redis.get
ListGet(raw, ok) ==
    /\ CanAccept
    /\ started' = started + 1
    /\ LET r0 == ListBegin(NewRequest(started + 1, "list"), raw)
           reply == [ok |-> ok, val |-> IF ok THEN RedisGet(cache, r0.key, now) ELSE None]
           hit == IsSome(reply.val)
           r1 == [r0 EXCEPT !.startEvicted = evictedUpTo, !.startFresh = fresh,
                            !.afterSignal = proc.signals > 0,
                            !.get = IF ~ok THEN "error" ELSE IF hit THEN "hit" ELSE "miss",
                            !.cached = reply.val,
                            !.hitWver = IF hit THEN cache[r0.key].wver ELSE 0,
                            !.hitRver = IF hit THEN cache[r0.key].rver ELSE 0,
                            !.hitStaleSince = IF hit THEN cache[r0.key].staleSince ELSE None]
       IN  Proceed(r0, ListAfterGet(r1, reply))
    /\ fresh' = IF ok THEN fresh ELSE None
    /\ UNCHANGED <<store, nextId, cache, now, ticks, commits, evictedUpTo, proc>>

\* GET /recipes, the reply of Recipe.aggregate
ListAggregate(r, ok) ==
    /\ r \in inflight /\ r.kind = "list" /\ r.pc = "aggregate"
    /\ LET skip == SkipOf(r.page, r.pageSize)
           resolves == ok /\ ~PipelineRejected(skip, r.pageSize)
           replies ==
               IF resolves
               THEN { [ok |-> TRUE, results |-> res] :
                        res \in Aggregate(store, r.search, r.difficulty, skip.n, r.pageSize) }
               ELSE { [ok |-> FALSE, results |-> <<>>] }
           r1 == [r EXCEPT !.storeQueries = @ + 1, !.readStore = store,
                           !.readVer = commits,
                           !.agg = IF resolves THEN "ok" ELSE "error"]
       IN  \E reply \in replies : Proceed(r, ListAfterAggregate(r1, reply))
    /\ UNCHANGED <<store, nextId, cache, now, ticks, started, commits, evictedUpTo, fresh,
                   proc>>

\* GET /recipes, the reply of redis.set and the response
ListSet(r, ok) ==
    /\ r \in inflight /\ r.kind = "list" /\ r.pc = "set"
    /\ LET r1 == [r EXCEPT !.set = IF ok THEN "ok" ELSE "error",
                           !.setAttempts = @ + 1,
                           !.cacheWrites = IF ok THEN @ + 1 ELSE @]
           r2 == ListAfterSet(r1, ok)
       IN  /\ Proceed(r, r2)
           /\ cache' = IF ok
                       THEN RedisSetEx(cache, r.key, ListCachePayload(r), TTL_SECONDS, now,
                                       [raw |-> r.raw, wver |-> commits,
                                        staleSince |-> r.staleSince,
                                        rver |-> r.readVer, rstore |-> r.readStore])
                       ELSE cache
           /\ fresh' = IF ok /\ r.get = "miss" /\ r2.pc = "done" /\ r2.status = 200
                       THEN Some([raw |-> r.raw, json |-> Get(r2.resJson)])
                       ELSE None
    /\ UNCHANGED <<store, nextId, now, ticks, started, commits, evictedUpTo, proc>>

\* The store call of a mutation handler resolved or rejected: docs is the
\* collection after it, reply what the handler gets
Mutate(kind, id, body, docs, reply) ==
    /\ CanAccept
    /\ started' = started + 1
    /\ LET r0 == [NewRequest(started + 1, kind) EXCEPT !.id = id, !.body = body]
           committed == docs # store \/ (reply.ok /\ IsSome(reply.doc))
           r1 == [r0 EXCEPT !.commit = IF committed THEN commits + 1 ELSE 0,
                            !.afterSignal = proc.signals > 0,
                            !.storeQueries = 1,
                            !.found = IF ~reply.ok THEN "error"
                                      ELSE IF IsSome(reply.doc) THEN "yes" ELSE "no"]
           r2 == MutationAfterStore(r1, reply)
           held == IF committed THEN InflightAtCommit(inflight, docs, now) ELSE inflight
       IN  /\ store' = docs
           /\ commits' = IF committed THEN commits + 1 ELSE commits
           /\ cache' = IF committed THEN CacheAtCommit(cache, docs, now) ELSE cache
           /\ fresh' = IF committed THEN None ELSE fresh
           /\ IF r2.pc = "done"
              THEN /\ inflight' = held
                   /\ last' = Some([r2 EXCEPT !.at = now])
              ELSE /\ inflight' = held \cup {r2}
                   /\ UNCHANGED last
    /\ UNCHANGED <<now, ticks, evictedUpTo, proc>>

\* POST /recipes, to the reply of newRecipe.save()
Post(body, ok) ==
    /\ nextId <= MaxIds
    /\ IF ok
       THEN /\ Mutate("post", nextId, Some(body), StoreInsert(store, nextId, body),
                      [ok |-> TRUE, doc |-> Some(Document(nextId, body))])
            /\ nextId' = nextId + 1
       ELSE /\ Mutate("post", nextId, Some(body), store, [ok |-> FALSE, doc |-> None])
            /\ UNCHANGED nextId

\* PUT /recipes/:id, to the reply of Recipe.findByIdAndUpdate: a malformed
\* id makes it reject, an id of no document makes it resolve to null
Put(id, body, ok) ==
    /\ IF ok /\ id # MalformedId
       THEN IF id \in DOMAIN store
            THEN Mutate("put", id, Some(body), StoreUpdate(store, id, body),
                        [ok |-> TRUE, doc |-> Some(Document(id, body))])
            ELSE Mutate("put", id, Some(body), store, [ok |-> TRUE, doc |-> None])
       ELSE Mutate("put", id, Some(body), store, [ok |-> FALSE, doc |-> None])
    /\ UNCHANGED nextId

\* DELETE /recipes/:id, to the reply of Recipe.findByIdAndDelete
Delete(id, ok) ==
    /\ IF ok /\ id # MalformedId
       THEN IF id \in DOMAIN store
            THEN Mutate("delete", id, None, StoreDelete(store, id),
                        [ok |-> TRUE, doc |-> Some(store[id])])
            ELSE Mutate("delete", id, None, store, [ok |-> TRUE, doc |-> None])
       ELSE Mutate("delete", id, None, store, [ok |-> FALSE, doc |-> None])
    /\ UNCHANGED nextId

\* A mutation handler, the reply of redis.del in clearRecipeCache and the
\* response
Clear(r, ok) ==
    /\ r \in inflight /\ r.kind # "list" /\ r.pc = "clear"
    /\ LET r1 == MutationAfterClear([r EXCEPT !.del = IF ok THEN "ok" ELSE "error",
                                               !.delAttempts = @ + 1], ok)
       IN  /\ Proceed(r, r1)
           /\ evictedUpTo' =
                IF ok /\ r1.status = SuccessStatus(r.kind) /\ r.commit > evictedUpTo
                THEN r.commit ELSE evictedUpTo
    /\ cache' = IF ok THEN RedisDel(cache, Str_recipes_star) ELSE cache
    /\ fresh' = None
    /\ UNCHANGED <<store, nextId, now, ticks, started, commits, proc>>

\* Time passes
Tick(d) ==
    /\ ticks < MaxTicks
    /\ ticks' = ticks + 1
    /\ now' = now + d
    /\ cache' = Expire(cache, now + d)
    /\ fresh' = None
    /\ UNCHANGED <<store, nextId, inflight, last, started, commits, evictedUpTo, proc>>

\* GET /recipes/:id, to its response: the store is queried when the handler
\* gets to findById; a malformed id makes the query reject, an id of no
\* document makes it resolve to null
GetById(id, ok) ==
    /\ CanAccept
    /\ started' = started + 1
    /\ LET r0 == GetByIdBegin([NewRequest(started + 1, "get") EXCEPT
                                  !.afterSignal = proc.signals > 0], id)
           reply == IF ok /\ id # MalformedId
                    THEN [ok |-> TRUE,
                          doc |-> IF id \in DOMAIN store THEN Some(store[id]) ELSE None]
                    ELSE [ok |-> FALSE, doc |-> None]
           r1 == [r0 EXCEPT !.storeQueries = 1, !.readStore = store,
                            !.found = IF ~reply.ok THEN "error"
                                      ELSE IF IsSome(reply.doc) THEN "yes" ELSE "no"]
           r2 == IF r0.pc = "done" THEN r0 ELSE GetByIdAfterFind(r1, reply)
       IN  last' = Some([r2 EXCEPT !.at = now])
    /\ UNCHANGED <<store, nextId, cache, now, ticks, inflight, commits, evictedUpTo,
                   fresh, proc>>

\* SIGINT or SIGTERM is delivered: its handler runs to
\* `await mongoose.disconnect()`
Signal ==
    /\ ~proc.exited
    /\ proc.signals < MaxSignals
    /\ proc' = [proc EXCEPT !.signals = @ + 1, !.handlers = @ + 1]
    /\ UNCHANGED <<store, nextId, cache, now, ticks, inflight, last, started, commits,
                   evictedUpTo, fresh>>

\* mongoose.disconnect() resolved: redis.disconnect() and process.exit(0),
\* which ends the requests in flight; or it rejected, and the handler ends
\* there (the rejection is logged by the unhandledRejection handler)
Disconnected(ok) ==
    /\ proc.handlers > 0
    /\ IF ok
       THEN /\ proc' = [proc EXCEPT !.listening = FALSE, !.storeConnected = FALSE,
                                    !.cacheConnected = FALSE, !.handlers = 0,
                                    !.exited = TRUE, !.exitCode = 0]
            /\ inflight' = {}
       ELSE /\ proc' = [proc EXCEPT !.handlers = @ - 1]
            /\ UNCHANGED inflight
    /\ fresh' = None
    /\ UNCHANGED <<store, nextId, cache, now, ticks, last, started, commits, evictedUpTo>>

\* The cache-aside and invalidation protocol, without the clock
Next ==
    \/ started < MaxRequests /\ \E raw \in FewQueries, ok \in BOOLEAN : ListGet(raw, ok)
    \/ started < MaxRequests /\ \E body \in RecipeBodies, ok \in BOOLEAN : Post(body, ok)
    \/ started < MaxRequests
          /\ \E id \in IdInputs, body \in RecipeBodies, ok \in BOOLEAN : Put(id, body, ok)
    \/ started < MaxRequests /\ \E id \in IdInputs, ok \in BOOLEAN : Delete(id, ok)
    \/ \E r \in inflight, ok \in BOOLEAN : ListAggregate(r, ok)
    \/ \E r \in inflight, ok \in BOOLEAN : ListSet(r, ok)
    \/ \E r \in inflight, ok \in BOOLEAN : Clear(r, ok)

Spec == Init /\ [][Next]_vars

\* The same protocol under the clock: one list query, creations, time
NextClock ==
    \/ started < MaxClockRequests /\ \E ok \in BOOLEAN : ListGet(NoQuery, ok)
    \/ started < MaxClockRequests /\ \E body \in RecipeBodies, ok \in BOOLEAN : Post(body, ok)
    \/ \E r \in inflight, ok \in BOOLEAN : ListAggregate(r, ok)
    \/ \E r \in inflight, ok \in BOOLEAN : ListSet(r, ok)
    \/ \E r \in inflight, ok \in BOOLEAN : Clear(r, ok)
    \/ \E d \in {ShortTick, LongTick} : Tick(d)

SpecClock == Init /\ [][NextClock]_vars

\* The list handler on each of its parameters, one request at a time
NextParams ==
    \/ \E raw \in ListQueries, ok \in BOOLEAN :
          started < MaxParamRequests /\ inflight = {} /\ ListGet(raw, ok)
    \/ \E r \in inflight, ok \in BOOLEAN : ListAggregate(r, ok)
    \/ \E r \in inflight, ok \in BOOLEAN : ListSet(r, ok)

SpecParams == Init /\ [][NextParams]_vars

\* The endpoints that take an id, and the creations that give them records
NextById ==
    \/ started < MaxByIdRequests /\ \E id \in IdInputs, ok \in BOOLEAN : GetById(id, ok)
    \/ started < MaxByIdRequests /\ \E body \in RecipeBodies, ok \in BOOLEAN : Post(body, ok)
    \/ started < MaxByIdRequests
          /\ \E id \in IdInputs, body \in RecipeBodies, ok \in BOOLEAN : Put(id, body, ok)
    \/ started < MaxByIdRequests /\ \E id \in IdInputs, ok \in BOOLEAN : Delete(id, ok)
    \/ \E r \in inflight, ok \in BOOLEAN : Clear(r, ok)

SpecById == Init /\ [][NextById]_vars

\* The server under termination signals
NextLifecycle ==
    \/ started < MaxLifecycleRequests /\ \E ok \in BOOLEAN : ListGet(NoQuery, ok)
    \/ started < MaxLifecycleRequests
          /\ \E body \in RecipeBodies, ok \in BOOLEAN : Post(body, ok)
    \/ \E r \in inflight, ok \in BOOLEAN : ListAggregate(r, ok)
    \/ \E r \in inflight, ok \in BOOLEAN : ListSet(r, ok)
    \/ \E r \in inflight, ok \in BOOLEAN : Clear(r, ok)
    \/ Signal
    \/ \E ok \in BOOLEAN : Disconnected(ok)

SpecLifecycle == Init /\ [][NextLifecycle]_vars

-----------------------------------------------------------------------------
(* Properties *)

\* The responses sent so far that the state still holds
Responses == IF IsSome(last) THEN {Get(last)} ELSE {}

ListResponses == { r \in Responses : r.kind = "list" }

MutationResponses == { r \in Responses : r.kind # "list" }

\* The list requests of the state, answered or not
ListRequests == { r \in inflight \cup Responses : r.kind = "list" }

\* C1: a GET /recipes accepted after a mutation was committed, its eviction
\* acknowledged by the cache and its success response sent, is not answered
\* from a cache entry written before that mutation was committed.
C1_InvalidationEffect ==
    \A r \in ListResponses :
        r.get = "hit" => r.hitWver >= r.startEvicted

\* C2: a GET /recipes for whose key redis.get returned a value answers 200
\* with exactly that value, queries the store zero times and writes the cache
\* zero times.
C2_HitIssuesNoStoreQuery ==
    \A r \in ListResponses :
        IsSome(r.cached) =>
            /\ r.status = 200
            /\ r.resJson = r.cached
            /\ r.storeQueries = 0
            /\ r.cacheWrites = 0

C2_Witness ==
    \E r \in ListResponses :
        /\ IsSome(r.cached) /\ r.status = 200 /\ r.resJson = r.cached
        /\ JSONParse(Get(r.cached)).totalRecipes > 0

\* C3: a GET /recipes accepted right after a GET /recipes with the same
\* parameters missed the cache, read the store and cached its result (no
\* commit, clock advance, cache failure or other cache write since) answers
\* 200 with the very same PageResult text and does not query the store.
C3_PopulationIdempotence ==
    \A r \in ListResponses :
        (IsSome(r.startFresh) /\ Get(r.startFresh).raw = r.raw /\ r.get # "error") =>
            /\ r.status = 200
            /\ r.resJson = Some(Get(r.startFresh).json)
            /\ r.storeQueries = 0

C3_Witness ==
    \E r \in ListResponses :
        /\ IsSome(r.startFresh) /\ Get(r.startFresh).raw = r.raw
        /\ r.get = "hit" /\ r.storeQueries = 0
        /\ r.resJson = Some(Get(r.startFresh).json)
        /\ IsSome(r.raw.page)

\* C4: a GET /recipes whose redis.get or redis.set (or both) failed, and
\* whose store query did not fail, answers 200 with a PageResult the store
\* gives for its query on the collection it read.
C4_DegradedMode ==
    \A r \in ListResponses :
        ((r.get = "error" \/ r.set = "error") /\ r.agg # "error") =>
            /\ r.status = 200
            /\ r.resError = NoError
            /\ \E v \in PageResults(r.readStore, QueryOf(r.raw)) :
                  r.resJson = Some(JSONStringify(v))

C4_Witness ==
    \E r \in ListResponses :
        /\ r.get = "error" /\ r.set = "error" /\ r.status = 200
        /\ JSONParse(Get(r.resJson)).totalRecipes > 0

\* C5: the step in which a create, update or delete handler learns that its
\* eviction failed leaves the store as the commit made it and sends the
\* success status of the mutation (201 for create, 200 for update, delete).
C5_EvictionFailureAbsorbed ==
    [][ \A r \in inflight :
          (r.kind # "list" /\ r.pc = "clear" /\ r \notin inflight'
             /\ IsSome(last') /\ Get(last').rid = r.rid /\ Get(last').del = "error")
          => /\ store' = store
             /\ Get(last').status = SuccessStatus(r.kind)
             /\ Get(last').resError = NoError ]_vars

C5_Witness ==
    \E r \in MutationResponses :
        /\ r.del = "error" /\ r.status = 201 /\ r.id \in DOMAIN store

\* C6: no GET /recipes is answered from a cache entry whose content stopped
\* being what the store gives, through a committed mutation, more than 3600
\* seconds before the response.
C6_MaxStaleness ==
    \A r \in ListResponses :
        (r.get = "hit" /\ IsSome(r.hitStaleSince)) =>
            r.at - Get(r.hitStaleSince) <= TTL_SECONDS

\* C7: the pageSize a GET /recipes uses in its key, its $limit and its
\* totalPages division is in 1..100, whatever pageSize the caller gives.
C7_PageSizeRange ==
    \A r \in ListRequests : r.pageSize \in 1..MAX_PAGE_SIZE

\* C8: a requested pageSize above 100 (150, 500) is served as 100, a
\* requested pageSize of 0 or none as 10, a requested pageSize n in 1..100
\* as n.
C8_Clamping ==
    \A r \in ListRequests :
        LET given == r.raw.pageSize
            n == DigitsToNat(Get(given))
            digits == IsSome(given) /\ \A i \in 1..Len(Get(given)) : IsDigit(Get(given)[i])
        IN  /\ given = None => r.pageSize = 10
            /\ given = Some(<<"0">>) => r.pageSize = 10
            /\ given = Some(<<"5","0","0">>) => r.pageSize = 100
            /\ (digits /\ n > 100) => r.pageSize = 100
            /\ (digits /\ n >= 1 /\ n <= 100) => r.pageSize = n

C8_Witness ==
    \E r \in ListResponses :
        /\ r.raw.pageSize = Some(<<"5","0","0">>) /\ r.pageSize = 100 /\ r.status = 200
        /\ \E k \in DOMAIN cache : cache[k].raw.pageSize = None /\ k # r.key

\* The normalized tuple of a list request
Normalized(r) == <<r.page, r.pageSize, r.search, r.difficulty>>

\* Two requests that differ at most in the pageSize they ask for, both
\* clamped to the maximum
ClampedAlike(r1, r2) ==
    /\ [r1.raw EXCEPT !.pageSize = None] = [r2.raw EXCEPT !.pageSize = None]
    /\ r1.raw.pageSize \in {Some(<<"1","0","0">>), Some(<<"1","5","0">>), Some(<<"5","0","0">>)}
    /\ r2.raw.pageSize \in {Some(<<"1","0","0">>), Some(<<"1","5","0">>), Some(<<"5","0","0">>)}

\* C9: two list requests with the same normalized tuple have the same cache
\* key; two that differ only in a pageSize clamped to 100 (150 and 100) have
\* the same key, and the entry the one wrote is under the key of the other.
C9_KeyDeterminism ==
    /\ \A r1, r2 \in ListRequests :
          (Normalized(r1) = Normalized(r2) \/ ClampedAlike(r1, r2)) => r1.key = r2.key
    /\ \A r \in ListRequests :
          \A k \in DOMAIN cache :
              LET w == ListBegin(NewRequest(0, "list"), cache[k].raw)
              IN  (Normalized(w) = Normalized(r) \/ ClampedAlike(w, r)) => k = r.key

C9_Witness ==
    \E r \in ListResponses :
        /\ r.raw.pageSize = Some(<<"1","0","0">>) /\ r.get = "hit"
        /\ cache[r.key].raw.pageSize = Some(<<"1","5","0">>)
        /\ [r.raw EXCEPT !.pageSize = None] = [cache[r.key].raw EXCEPT !.pageSize = None]

\* n = ceil(a / b), for b > 0
IsCeiling(n, a, b) == n * b >= a /\ (n - 1) * b < a

PageResultOk(v, pageSize) ==
    /\ Len(v.recipes) <= pageSize
    /\ v.totalRecipes >= 0
    /\ v.totalPages >= 0
    /\ IsCeiling(v.totalPages, v.totalRecipes, pageSize)

\* C10: every PageResult that GET /recipes returns or writes to the cache
\* has at most pageSize recipes, totalRecipes >= 0, totalPages >= 0 and
\* totalPages = ceil(totalRecipes / pageSize); 0 recipes give 0 pages, and
\* 25 recipes in pages of 10 give 3 pages.
C10_PageResultInvariant ==
    /\ \A r \in ListResponses :
          r.status = 200 => PageResultOk(JSONParse(Get(r.resJson)), r.pageSize)
    /\ \A k \in DOMAIN cache :
          PageResultOk(JSONParse(cache[k].val), QueryOf(cache[k].raw).pageSize)
    /\ TotalPagesOf(0, 10) = 0
    /\ TotalPagesOf(25, 10) = 3

C10_Witness ==
    \E r \in ListResponses :
        LET v == JSONParse(Get(r.resJson))
        IN  /\ r.status = 200 /\ r.pageSize = 1 /\ r.page = JsString(<<"2">>)
            /\ Len(v.recipes) = 1 /\ v.totalRecipes = 2 /\ v.totalPages = 2
            /\ r.key \in DOMAIN cache /\ cache[r.key].val = Get(r.resJson)

\* The list request whose handler ran in the step, seen after the step
ListHandlerRan(r1) ==
    /\ r1.kind = "list"
    /\ \/ started' = started + 1 /\ r1.rid = started'
       \/ \E r \in inflight : r.rid = r1.rid /\ r.pc # r1.pc

\* The cache key that the parameters of a list request derive
KeyOfRaw(raw) == CacheKey(PageOf(raw), PageSizeOf(raw), SearchOf(raw), DifficultyOf(raw))

\* C11: a step of the handler of GET /recipes leaves the store as it is and
\* every cache key but the one its parameters derive as it is; the request
\* writes the cache at most once, and only after redis.get missed or failed.
C11_ListSideEffects ==
    [][ \A r1 \in inflight' \cup (IF IsSome(last') THEN {Get(last')} ELSE {}) :
          ListHandlerRan(r1) =>
            /\ store' = store
            /\ DOMAIN cache \subseteq DOMAIN cache'
            /\ DOMAIN cache' \subseteq DOMAIN cache \cup {KeyOfRaw(r1.raw)}
            /\ \A k \in DOMAIN cache \ {KeyOfRaw(r1.raw)} : cache'[k] = cache[k]
            /\ cache' # cache => r1.pc = "done" /\ r1.cacheWrites = 1
            /\ r1.cacheWrites <= 1
            /\ r1.cacheWrites = 1 => r1.get \in {"miss", "error"} ]_vars

C11_Witness ==
    \E r \in ListResponses :
        /\ r.get = "error" /\ r.cacheWrites = 1 /\ r.key \in DOMAIN cache
        /\ \E k \in DOMAIN cache : k # r.key
        /\ DOMAIN store # {}

\* C12: a GET /recipes whose store query failed is answered at once with
\* status 500 and the error of the list path, has called redis.set zero
\* times, and the step in which its handler learns of the failure leaves the
\* cache as it is.
C12_StoreFailureIsHard ==
    [][ \A r1 \in inflight' \cup (IF IsSome(last') THEN {Get(last')} ELSE {}) :
          (r1.kind = "list" /\ r1.agg = "error") =>
            /\ r1.pc = "done"
            /\ r1.status = 500
            /\ r1.resError = [error |-> "Failed to fetch recipes", details |-> TRUE]
            /\ r1.resJson = None
            /\ r1.setAttempts = 0 /\ r1.cacheWrites = 0
            /\ ListHandlerRan(r1) => cache' = cache ]_vars

C12_Witness ==
    \E r \in ListResponses :
        /\ r.agg = "error" /\ r.status = 500 /\ r.get = "miss"
        /\ DOMAIN cache # {} /\ r.key \notin DOMAIN cache

\* The documents of the collection docs that the query of request r matches
MatchingIds(r, docs) ==
    { id \in DOMAIN docs : MatchesQuery(docs[id], r.search, r.difficulty) }

\* C13 as stated: a list request that reads the store does so in two store
\* operations, the count and the page query.
C13_TwoStoreOperations ==
    \A r \in ListResponses :
        r.agg = "ok" => r.storeQueries = 2

\* C13, amended: a list request that reads the store does so in one store
\* operation, and the totalRecipes of its response is the number of matching
\* documents of the very collection its page was read from, whatever was
\* committed while the request was in flight.
C13_CountMatchesPage ==
    \A r \in ListResponses :
        r.agg = "ok" =>
            LET v == JSONParse(Get(r.resJson))
                ids == MatchingIds(r, r.readStore)
            IN  /\ r.storeQueries = 1
                /\ v.totalRecipes = Cardinality(ids)
                /\ \A i \in 1..Len(v.recipes) :
                      \E id \in ids : v.recipes[i] = r.readStore[id]
                /\ \A i, j \in 1..Len(v.recipes) :
                      i # j => v.recipes[i]._id # v.recipes[j]._id

C13_Witness ==
    \E r \in ListResponses :
        /\ r.agg = "ok" /\ r.status = 200
        /\ store # r.readStore
        /\ JSONParse(Get(r.resJson)).totalRecipes = Cardinality(MatchingIds(r, r.readStore))
        /\ Cardinality(MatchingIds(r, store)) # Cardinality(MatchingIds(r, r.readStore))
        /\ Len(JSONParse(Get(r.resJson)).recipes) > 0

\* The responses of GET /recipes/:id
LookupResponses == { r \in Responses : r.kind = "get" }

\* C14: GET /recipes/:id answers 400, without having queried the store, when
\* the id is no well-formed ObjectId; when it is well-formed and the store
\* query did not fail, 404 if no document of the collection has the id and
\* 200 with the document otherwise.
C14_LookupStatuses ==
    \A r \in LookupResponses :
        IF ~ObjectIdIsValid(r.id)
        THEN r.status = 400 /\ r.storeQueries = 0 /\ r.resDoc = None
        ELSE r.found # "error" =>
                IF r.id \in DOMAIN r.readStore
                THEN r.status = 200 /\ r.resDoc = Some(r.readStore[r.id])
                     /\ r.resError = NoError
                ELSE r.status = 404 /\ r.resDoc = None

C14_Witness ==
    \E r \in LookupResponses :
        /\ r.status = 200 /\ r.id \in DOMAIN store /\ r.resDoc = Some(store[r.id])
        /\ r.rid = 3 /\ commits > 0

C14_WitnessMalformed ==
    \E r \in LookupResponses : r.id = MalformedId /\ r.status = 400

C14_WitnessAbsent ==
    \E r \in LookupResponses : r.id # MalformedId /\ r.status = 404 /\ DOMAIN store # {}

\* C15: PUT /recipes/:id and DELETE /recipes/:id answer 400 when the id is
\* no well-formed ObjectId, and 404 when it is well-formed and no document
\* has it.
C15_MutationErrorTaxonomy ==
    \A r \in MutationResponses :
        r.kind \in {"put", "delete"} =>
            /\ ~ObjectIdIsValid(r.id) => r.status = 400
            /\ (ObjectIdIsValid(r.id) /\ r.found = "no") => r.status = 404

\* C16: every response with status 400, 404 or 500 carries an error field
\* and a details field.
C16_ErrorShape ==
    \A r \in Responses :
        r.status \in {400, 404, 500} =>
            r.resError.error # "" /\ r.resError.details

\* The requests of the state, answered or not
Requests == inflight \cup Responses

\* C17: no request is accepted once a termination signal was delivered, the
\* server stops listening before the store connection is closed, the store
\* connection is closed before the cache connection, and the process exits
\* with code 0 after both.
C17_ShutdownOrdering ==
    /\ \A r \in Requests : ~r.afterSignal
    /\ ~proc.storeConnected => ~proc.listening
    /\ ~proc.cacheConnected => ~proc.storeConnected
    /\ proc.exited =>
          ~proc.storeConnected /\ ~proc.cacheConnected /\ proc.exitCode = 0

\* The order of the steps the handler does take: the connections are closed
\* only by a signal handler, the store before the cache, and then the process
\* exits with code 0
C17_DisconnectOrder ==
    /\ ~proc.cacheConnected => ~proc.storeConnected
    /\ ~proc.storeConnected => proc.signals > 0 /\ proc.exited
    /\ proc.exited =>
          ~proc.storeConnected /\ ~proc.cacheConnected /\ proc.exitCode = 0

\* A request accepted and answered between the signal and the exit
C17_AcceptedWhileClosing ==
    \E r \in Responses : r.afterSignal /\ r.status \in {200, 201} /\ proc.exited

\* The number of commits the store had seen when the content of a list
\* response was read from it
ObservedVersion(r) == IF r.get = "hit" THEN r.hitRver ELSE r.readVer

\* C18: a GET /recipes accepted after a mutation was committed, its eviction
\* acknowledged by the cache and its success response sent, answers with
\* content read from the store after that mutation was committed.
C18_FreshReads ==
    \A r \in ListResponses :
        r.status = 200 => ObservedVersion(r) >= r.startEvicted

\* The case of the claim: the entry that is hit was written after the
\* eviction, by a list request that had read the store before the commit
C18_RaceWitness ==
    \E r \in ListResponses :
        /\ r.get = "hit" /\ r.status = 200
        /\ r.hitWver >= r.startEvicted
        /\ r.hitRver < r.startEvicted

\* The requests of POST /recipes, PUT and DELETE /recipes/:id
MutationRequests == { r \in Requests : r.kind \in {"post", "put", "delete"} }

\* C19: a create, update or delete handler calls redis.del at most once; it
\* has called it exactly once when it answers after a commit, and never
\* before its commit; a handler whose store call failed or found no record
\* answers 404 or its failure status without having called it; a list
\* handler calls redis.set at most once, also when the call fails.
C19_InvalidationProtocol ==
    /\ \A r \in MutationRequests :
          /\ r.delAttempts <= 1
          /\ r.delAttempts = 1 => r.commit > 0 /\ r.commit <= commits
          /\ r.commit > 0 =>
                /\ r.found = "yes"
                /\ r.pc \in {"clear", "done"}
                /\ r.pc = "clear" => r.delAttempts = 0 /\ r.status = 0
                /\ r.pc = "done" =>
                      r.delAttempts = 1 /\ r.status = SuccessStatus(r.kind)
          /\ r.found \in {"no", "error"} =>
                /\ r.commit = 0 /\ r.delAttempts = 0 /\ r.pc = "done"
                /\ r.status = IF r.found = "no" THEN 404 ELSE CatchStatus(r.kind)
    /\ \A r \in ListRequests :
          /\ r.setAttempts <= 1
          /\ r.set = "error" => r.setAttempts = 1 /\ r.pc = "done"

C19_Witness ==
    \E r \in MutationResponses :
        /\ r.kind = "delete" /\ r.del = "error" /\ r.delAttempts = 1
        /\ r.status = 200 /\ r.id \notin DOMAIN store
        /\ DOMAIN cache # {}

C19_WitnessNotFound ==
    \E r \in MutationResponses :
        r.kind = "put" /\ r.found = "no" /\ r.status = 404 /\ r.delAttempts = 0

\* The text is a whole serialized PageResult
CompleteText(s) ==
    /\ Len(s) = 4
    /\ <<s[1][1], s[2][1], s[3][1], s[4][1]>> =
          <<"recipes", "totalRecipes", "totalPages", "currentPage">>

\* C20: every value the cache holds under a key k is the whole text of a
\* PageResult that the store gave, for the collection as it was at some
\* commit not after the current one, to the query of a list request whose
\* parameters derive k.
C20_CacheContentValid ==
    \A k \in DOMAIN cache :
        LET e == cache[k]
        IN  /\ CompleteText(e.val)
            /\ k = KeyOfRaw(e.raw)
            /\ e.rver <= e.wver /\ e.wver <= commits
            /\ JSONParse(e.val) \in PageResults(e.rstore, QueryOf(e.raw))

C20_Witness ==
    \E k \in DOMAIN cache :
        /\ cache[k].rstore # store
        /\ cache[k].rver < commits
        /\ JSONParse(cache[k].val).totalRecipes > 0
        /\ JSONParse(cache[k].val) \notin PageResults(store, QueryOf(cache[k].raw))
====
